---- MODULE Spec2Model ----
(***************************************************************************)
(* Nexus load balancer: the backend registry (ServerPool), the per-backend *)
(* liveness flag (Backend), the passive health-check transport, the active *)
(* HealthChecker and the per-request handler loop of main.                 *)
(*                                                                         *)
(* The specifications share the variables:                                   *)
(*   SpecSeq  one caller using ServerPool/Backend as a library, each call  *)
(*            running to completion (no overlapping call);                 *)
(*   Spec     the running process of main: request handlers, the health    *)
(*            checker goroutine and main's Start/Stop, interleaved at      *)
(*            every access to shared memory;                               *)
(*   SpecPar  goroutines calling GetNextPeer on main's pool at the same    *)
(*            time, nothing writing a liveness flag.                       *)
(* SpecHC is Spec with the probes of one backend recorded, SpecScan with   *)
(* the instants of one handler's GetNextPeer calls recorded; FairSpec and  *)
(* FairHC are Spec with the handlers, or the checker, scheduled fairly;    *)
(* FairStop adds the fairness of the checker's select and of Stop.         *)
(***************************************************************************)
EXTENDS Integers, Sequences, FiniteSets, TLC

\* ---------------------------------------------------------------- bounds
\* width of the model's cursor in bits (the code's is a uint64)
CursorBits == 2
\* longest backend sequence SpecSeq builds with AddBackend
MaxPool == 3
\* distinct endpoint URLs SpecSeq draws from
NumURLs == 2
\* concurrent request handlers of Spec
NumWorkers == 1
\* concurrent callers of GetNextPeer in SpecPar
NumCallers == 2

\* ------------------------------------------------------ program constants
maxRetries == 3

backendURLs == <<1, 2, 3>>

RECURSIVE Pow2(_)
Pow2(n) == IF n = 0 THEN 1 ELSE 2 * Pow2(n - 1)

\* atomic.AddUint64 wraps at the width of the counter
CursorMod == Pow2(CursorBits)

URLs == 1..NumURLs
Workers == 1..NumWorkers

\* a nil *backend.Backend; a non-nil one is its position in s.backends
Nil == 0

VARIABLES
    backends,   \* ServerPool.backends: sequence of [URL, Alive]
    current,    \* ServerPool.current
    hist,       \* SpecSeq: results of the GetNextPeer calls since the last
                \*          write to a liveness flag or to the sequence
    wk,         \* Spec: per request handler, its position and locals
    hc,         \* Spec: the health checker goroutine
    lifecycle,  \* Spec: main's position around Start/Stop, stopChan, wg
    obs         \* Spec: what has been observed of the run (history)

vars == <<backends, current, hist, wk, hc, lifecycle, obs>>

\* ------------------------------------------------------------- Backend

\* backend.NewBackend: a backend starts alive
NewBackend(u) == [URL |-> u, Alive |-> TRUE]

\* Backend.IsAlive of the backend at position p
IsAlive(bs, p) == bs[p].Alive

\* a SetAlive(false) that flips the flag instead of clearing it
SetAliveInToggle(bs, p, a) == [bs EXCEPT ![p].Alive = IF a THEN TRUE ELSE ~@]

\* Backend.SetAlive: a plain overwrite of the flag
SetAliveIn(bs, p, a) == [bs EXCEPT ![p].Alive = a]

\* ------------------------------------------------------------ ServerPool

\* atomic.AddUint64(&s.current, 1)
AtomicAdd(cur) == (cur + 1) % CursorMod

\* NextIndex's result for the incremented counter
NextIndexOf(cur, poolSize) == cur % poolSize

\* idx := (next + i) % poolSize, 0-based
ScanIdx(next, i, poolSize) == (next + i) % poolSize

\* a scan that stops one position short of the full round
RECURSIVE ScanFromShort(_, _, _)
ScanFromShort(bs, next, i) ==
    IF i >= Len(bs) - 1 THEN Nil
    ELSE LET idx == ScanIdx(next, i, Len(bs))
         IN IF IsAlive(bs, idx + 1) THEN idx + 1
            ELSE ScanFromShort(bs, next, i + 1)

\* the scan of GetNextPeer from iteration i on, liveness unchanged during it:
\* the position of the first alive backend, or Nil
RECURSIVE ScanFrom(_, _, _)
ScanFrom(bs, next, i) ==
    IF i >= Len(bs) THEN Nil
    ELSE LET idx == ScanIdx(next, i, Len(bs))
         IN IF IsAlive(bs, idx + 1) THEN idx + 1 ELSE ScanFrom(bs, next, i + 1)

\* GetNextPeer without the atomic.StoreUint64 of the selected index
GetNextPeerNoPin(bs, cur) ==
    IF Len(bs) = 0 THEN [peer |-> Nil, current |-> cur]
    ELSE LET c1 == AtomicAdd(cur)
         IN [peer |-> ScanFrom(bs, NextIndexOf(c1, Len(bs)), 0), current |-> c1]

\* a GetNextPeer that advances the cursor before it looks at the pool size
GetNextPeerEager(bs, cur) ==
    LET c1 == AtomicAdd(cur)
    IN IF Len(bs) = 0 THEN [peer |-> Nil, current |-> c1]
       ELSE LET p == ScanFrom(bs, NextIndexOf(c1, Len(bs)), 0)
            IN IF p # Nil THEN [peer |-> p, current |-> p - 1]
               ELSE [peer |-> Nil, current |-> c1]

\* GetNextPeer run to completion: [peer, current]
GetNextPeerResult(bs, cur) ==
    IF Len(bs) = 0 THEN [peer |-> Nil, current |-> cur]
    ELSE LET c1   == AtomicAdd(cur)
             next == NextIndexOf(c1, Len(bs))
             p    == ScanFrom(bs, next, 0)
         IN IF p # Nil THEN [peer |-> p, current |-> p - 1]
            ELSE [peer |-> Nil, current |-> c1]

\* MarkBackendStatus: the first backend whose URL matches, or Nil
RECURSIVE FirstWithURL(_, _, _)
FirstWithURL(bs, u, p) ==
    IF p > Len(bs) THEN Nil
    ELSE IF bs[p].URL = u THEN p ELSE FirstWithURL(bs, u, p + 1)

\* a MarkBackendStatus without the break: every backend with the URL is set
MarkBackendStatusAll(bs, u, a) ==
    [p \in 1..Len(bs) |-> IF bs[p].URL = u THEN [bs[p] EXCEPT !.Alive = a]
                                           ELSE bs[p]]

\* MarkBackendStatus: SetAlive(alive) on the first backend whose URL matches
MarkBackendStatusIn(bs, u, a) ==
    LET p == FirstWithURL(bs, u, 1)
    IN IF p = Nil THEN bs ELSE SetAliveIn(bs, p, a)

\* GetPoolStatus
AliveCount(bs) == Cardinality({p \in 1..Len(bs) : IsAlive(bs, p)})

\* ------------------------------------------------- SpecSeq: one caller

HistCap == 2 * MaxPool

Push(h, r) == IF Len(h) < HistCap THEN Append(h, r) ELSE Append(Tail(h), r)

\* a handler between requests
IdleWorker == [pc |-> "idle", attempts |-> 0, next |-> 0, i |-> 0, peer |-> Nil]

\* health.NewHealthChecker: stopChan open, wg zero, no goroutine yet
NewHealthChecker == [pc |-> "new", idx |-> 0, alive |-> FALSE]
NewLifecycle == [pc |-> "new", stopClosed |-> FALSE, wg |-> 0]

\* what is recorded of one request, that of the observed handler: its
\* GetNextPeer calls (sel), those that returned nil, those that returned a
\* candidate the handler found DOWN (skips), its pauses, its forward
\* calls (the backend, the result, and for a failed one the backend's flag as
\* the round trip returned), the X-Forwarded-By (by) and X-Backend-Server
\* (hdr) headers set on the response, what the client received, and stale:
\* among the backends the GetNextPeer call in
\* progress can still return, those whose flag was false when the call
\* began and to which true has not been written since
NoRequest ==
    [sel |-> 0, nils |-> 0, skips |-> 0, pauses |-> 0, fwd |-> <<>>,
     by |-> "", hdr |-> Nil,
     out |-> "none", stale |-> {}]

\* what is recorded of the probes of the watched backend: the latest probe
\* (its result, the flag it read, the notification it logged), the one
\* before, and whether anything but the checker wrote the flag between the
\* two reads (evDirty) or since the latest read (dirty)
NoProbes ==
    [res |-> "none", was |-> TRUE, note |-> "none", pres |-> "none",
     pnote |-> "none", evDirty |-> FALSE, dirty |-> FALSE]

\* what is recorded of the latest GetNextPeer call of the observed handler,
\* where calls are tracked: whether it returned nil (res), whether at some
\* instant since it began every flag was false (allDown), and the backends
\* whose flag was false at some instant since it began (seen)
NoCall == [res |-> "none", allDown |-> FALSE, seen |-> {}]

\* who: the handler whose request is recorded; watch: the backend whose
\* probes are recorded (Nil: none); track: whether the instants of the
\* handler's GetNextPeer calls are recorded in call
InitObs ==
    [who |-> Nil, req |-> NoRequest, watch |-> Nil, pr |-> NoProbes,
     track |-> FALSE, call |-> NoCall]

InitSeq ==
    /\ backends = <<>>
    /\ current = 0
    /\ hist = <<>>
    /\ wk = [w \in Workers |-> IdleWorker]
    /\ hc = NewHealthChecker
    /\ lifecycle = NewLifecycle
    /\ obs = InitObs

SeqFrame == UNCHANGED <<wk, hc, lifecycle, obs>>

AddBackend(u) ==
    /\ Len(backends) < MaxPool
    /\ backends' = Append(backends, NewBackend(u))
    /\ hist' = <<>>
    /\ UNCHANGED current
    /\ SeqFrame

GetNextPeer ==
    LET r == GetNextPeerResult(backends, current)
    IN /\ current' = r.current
       /\ hist' = Push(hist, r.peer)
       /\ UNCHANGED backends
       /\ SeqFrame

SetAlive(p, a) ==
    /\ p \in 1..Len(backends)
    /\ backends' = SetAliveIn(backends, p, a)
    /\ hist' = <<>>
    /\ UNCHANGED current
    /\ SeqFrame

MarkBackendStatus(u, a) ==
    /\ backends' = MarkBackendStatusIn(backends, u, a)
    /\ hist' = <<>>
    /\ UNCHANGED current
    /\ SeqFrame

NextSeq ==
    \/ \E u \in URLs : AddBackend(u)
    \/ GetNextPeer
    \/ \E p \in 1..MaxPool, a \in BOOLEAN : SetAlive(p, a)
    \/ \E u \in URLs, a \in BOOLEAN : MarkBackendStatus(u, a)

SpecSeq == InitSeq /\ [][NextSeq]_vars

\* ------------------------------------------------------ claims on SpecSeq

PoolSize == Len(backends)
AllAlive == \A p \in 1..PoolSize : IsAlive(backends, p)
AllDown == \A p \in 1..PoolSize : ~IsAlive(backends, p)

\* C1: with N >= 1 backends all alive, the GetNextPeer calls made since the
\* last liveness change return backends in index order, wrapping: whatever
\* the cursor was before the first of them, every N consecutive calls return
\* every backend exactly once and the call N later returns the same backend.
C1_RoundRobinCycle ==
    (PoolSize >= 1 /\ AllAlive) =>
        /\ \A k \in 1..Len(hist) : hist[k] \in 1..PoolSize
        /\ \A k \in 1..(Len(hist) - 1) : hist[k + 1] = (hist[k] % PoolSize) + 1
        /\ \A k \in 1..(Len(hist) - PoolSize + 1) :
               {hist[j] : j \in k..(k + PoolSize - 1)} = 1..PoolSize
        /\ \A k \in 1..(Len(hist) - PoolSize) : hist[k + PoolSize] = hist[k]

\* 2N calls on three alive backends, the first of them returning the last
\* backend (the cursor was not at its initial value)
C1_Witness ==
    /\ PoolSize = 3 /\ AllAlive
    /\ Len(hist) = 2 * PoolSize
    /\ hist[1] = 3

\* C2: a GetNextPeer call on a non-empty pool during which no liveness flag
\* changes returns an alive backend if one exists and nil only if all are
\* DOWN; it never returns a backend whose flag is false.
C2_SelectsOnlyAlive ==
    (PoolSize >= 1 /\ Len(hist) >= 1) =>
        LET r == hist[Len(hist)]
        IN /\ r # Nil => (r \in 1..PoolSize /\ IsAlive(backends, r))
           /\ r = Nil <=> AllDown

\* a call that skipped two DOWN backends, wrapping, to return the only
\* alive one, and a call that found none
C2_Witness ==
    /\ PoolSize = 3 /\ Len(hist) >= 1 /\ hist[Len(hist)] = 1
    /\ ~IsAlive(backends, 2) /\ ~IsAlive(backends, 3)
    /\ current = 0

\* C11: while every backend is DOWN (whatever the pool size, zero included)
\* every GetNextPeer call returns nil; the step that marks a backend alive
\* (SetAlive or MarkBackendStatus) in a pool with all DOWN leaves the pool
\* such that the call made next returns an alive backend, the one marked,
\* and the first call made after a liveness write that left a backend alive
\* did return an alive backend.
C11_AllDownThenRevived ==
    /\ [](AllDown => \A k \in 1..Len(hist) : hist[k] = Nil)
    /\ [][(PoolSize >= 1 /\ AllDown /\ PoolSize' = PoolSize /\ ~AllDown') =>
            LET r == GetNextPeerResult(backends', current')
            IN /\ r.peer # Nil
               /\ IsAlive(backends', r.peer)
               /\ ~IsAlive(backends, r.peer)]_vars
    /\ []((Len(hist) = 1 /\ ~AllDown) =>
            (hist[1] # Nil /\ IsAlive(backends, hist[1])))

\* the one alive backend of three was returned by the first call after the
\* write, by a scan that started past it and wrapped
C11_Witness ==
    /\ PoolSize = 3 /\ AliveCount(backends) = 1
    /\ hist = <<2>> /\ current = 1
    /\ ~IsAlive(backends, 1) /\ ~IsAlive(backends, 3)

\* C13: a step MarkBackendStatus(u, false) on a pool that holds u leaves the
\* pool such that MarkBackendStatus(u, true) gives back the pool of before
\* the pair, but for the flag of the backend addressed (the first with URL
\* u), which is true: same sequence of URLs, same flags elsewhere, the same
\* pool if that backend was alive, cursor untouched, and GetNextPeer returns
\* that backend for some cursor.
C13_DownThenUpRestores ==
    [][\A u \in URLs :
          (FirstWithURL(backends, u, 1) # Nil /\ MarkBackendStatus(u, FALSE)) =>
             LET p     == FirstWithURL(backends, u, 1)
                 after == MarkBackendStatusIn(backends', u, TRUE)
             IN /\ ~IsAlive(backends', p)
                /\ IsAlive(after, p)
                /\ Len(after) = Len(backends)
                /\ \A q \in 1..Len(after) :
                      /\ after[q].URL = backends[q].URL
                      /\ q # p => after[q].Alive = backends[q].Alive
                /\ IsAlive(backends, p) => after = backends
                /\ current' = current
                /\ \E cur \in 0..(CursorMod - 1) :
                      GetNextPeerResult(after, cur).peer = p]_vars

\* the first of two backends with the same URL has been marked DOWN, the
\* second is alive
C13_Witness ==
    /\ PoolSize = 3 /\ backends[1].URL = backends[2].URL
    /\ backends[3].URL # backends[1].URL
    /\ ~IsAlive(backends, 1) /\ IsAlive(backends, 2) /\ ~IsAlive(backends, 3)
    /\ hist = <<>>

\* C14: AddBackend of a backend whose URL is that of a backend already in
\* the pool changes neither the length nor the content of s.backends.
C14_DuplicateAddRejected ==
    [][\A u \in URLs :
          (FirstWithURL(backends, u, 1) # Nil /\ AddBackend(u)) =>
             (Len(backends') = Len(backends) /\ backends' = backends)]_vars

\* C15: on a pool with no backend a GetNextPeer call can always be made and
\* completes (it is one step, with no wait and no failure outcome), returns
\* nil, and leaves the cursor where it was.
C15_EmptyPoolReturnsNil ==
    /\ [](PoolSize = 0 => ENABLED GetNextPeer)
    /\ [][(PoolSize = 0 /\ GetNextPeer) =>
            /\ hist' = Push(hist, Nil)
            /\ current' = current
            /\ backends' = <<>>]_vars
    /\ [](PoolSize = 0 => (current = 0 /\ \A k \in 1..Len(hist) : hist[k] = Nil))

\* several calls made on the empty pool
C15_Witness ==
    /\ PoolSize = 0 /\ Len(hist) >= 3 /\ hist[Len(hist)] = Nil
    /\ current = 0

\* C22: a GetNextPeer call never leaves the cursor smaller than it found it
\* (a call that would wrap the model's narrower counter aside).
C22_CursorMonotonic ==
    [][(GetNextPeer /\ current + 1 < CursorMod) => current' >= current]_vars

\* C22 as amended: a GetNextPeer call on an empty pool leaves the cursor as
\* it is, one that returns nil leaves it one greater (wrapping), and one
\* that returns the backend at index i leaves it equal to i, which is below
\* the pool size and can be smaller than the cursor was.
C22_CursorPinnedToReturned ==
    /\ [][GetNextPeer =>
            LET r == hist'[Len(hist')]
            IN IF PoolSize = 0 THEN current' = current /\ r = Nil
               ELSE IF r = Nil THEN current' = (current + 1) % CursorMod
               ELSE current' = r - 1 /\ current' < PoolSize]_vars
    /\ []((Len(hist) >= 1 /\ hist[Len(hist)] # Nil) => current = hist[Len(hist)] - 1)

\* the last backend of three was returned, then the first: the cursor went
\* from 2 back to 0
C22_Witness ==
    /\ PoolSize = 3 /\ AllAlive /\ Len(hist) >= 2
    /\ hist[Len(hist) - 1] = 3 /\ hist[Len(hist)] = 1
    /\ current = 0

\* the alive backends, and the first of them met going up from the position
\* after p, wrapping (p itself last)
AliveSet == {q \in 1..PoolSize : IsAlive(backends, q)}
Dist(p, q) == (q - p - 1) % PoolSize
NextAliveAfter(p) ==
    CHOOSE q \in AliveSet : \A q2 \in AliveSet : Dist(p, q) <= Dist(p, q2)

\* C23: with K >= 1 of the N backends alive, over the GetNextPeer calls made
\* since the last liveness write: after a call returned the backend at index
\* i the next scan starts at (i + 1) mod N, each call returns the first alive
\* backend after the one returned before it, and any K consecutive calls
\* return every alive backend exactly once.
C23_PinnedRoundRobinSkipsDown ==
    (PoolSize >= 1 /\ AliveSet # {}) =>
        LET K == Cardinality(AliveSet)
        IN /\ \A k \in 1..Len(hist) : hist[k] \in AliveSet
           /\ Len(hist) >= 1 =>
                 NextIndexOf(AtomicAdd(current), PoolSize)
                    = hist[Len(hist)] % PoolSize
           /\ \A k \in 1..(Len(hist) - 1) : hist[k + 1] = NextAliveAfter(hist[k])
           /\ \A k \in 1..(Len(hist) - K + 1) :
                 /\ {hist[j] : j \in k..(k + K - 1)} = AliveSet
                 /\ \A j1, j2 \in k..(k + K - 1) : hist[j1] = hist[j2] => j1 = j2

\* backends 1 and 3 of three alive, backend 2 DOWN: four calls returned
\* 3, 1, 3, 1
C23_Witness ==
    /\ PoolSize = 3 /\ AliveSet = {1, 3}
    /\ Len(hist) = 4 /\ hist = <<3, 1, 3, 1>>

\* ------------------------------------------- Spec: the running process

\* main: the pool after the AddBackend loop over backendURLs
MainPool == [k \in 1..Len(backendURLs) |-> NewBackend(backendURLs[k])]

\* the handlers run the same code: the request of the first is recorded
Init ==
    /\ backends = MainPool
    /\ current = 0
    /\ hist = <<>>
    /\ wk = [w \in Workers |-> IdleWorker]
    /\ hc = NewHealthChecker
    /\ lifecycle = NewLifecycle
    /\ obs = [InitObs EXCEPT !.who = 1]

\* ---- SpecPar: overlapping GetNextPeer calls on main's pool

Callers == 1..NumCallers

\* the calls recorded: as many as two rounds of the pool
MaxCalls == 2 * Len(backendURLs)

\* calls returned and calls in progress
Issued == Len(hist) + Cardinality({c \in Callers : wk[c].pc # "idle"})

InitPar ==
    /\ backends = MainPool
    /\ current = 0
    /\ hist = <<>>
    /\ wk = [c \in Callers |-> IdleWorker]
    /\ hc = NewHealthChecker
    /\ lifecycle = NewLifecycle
    /\ obs = InitObs

ParFrame == UNCHANGED <<backends, hc, lifecycle, obs>>

\* GetNextPeer up to the atomic increment in NextIndex. The model's counter
\* is narrower than the code's uint64: no call begins that would wrap it.
CallBegin(c) ==
    /\ wk[c].pc = "idle"
    /\ Issued < MaxCalls
    /\ current + 1 < CursorMod
    /\ IF Len(backends) = 0
       THEN /\ hist' = Append(hist, Nil)
            /\ UNCHANGED <<current, wk>>
       ELSE /\ current' = AtomicAdd(current)
            /\ wk' = [wk EXCEPT ![c] =
                        [pc |-> "scan", attempts |-> 0,
                         next |-> NextIndexOf(current', Len(backends)),
                         i |-> 0, peer |-> Nil]]
            /\ UNCHANGED hist
    /\ ParFrame

\* one iteration of the scan: the read of backends[idx].IsAlive()
CallScan(c) ==
    /\ wk[c].pc = "scan"
    /\ LET n == Len(backends)
           idx == ScanIdx(wk[c].next, wk[c].i, n)
       IN IF IsAlive(backends, idx + 1)
          THEN /\ wk' = [wk EXCEPT ![c].pc = "store", ![c].next = 0,
                                   ![c].i = 0, ![c].peer = idx + 1]
               /\ UNCHANGED hist
          ELSE IF wk[c].i + 1 < n
               THEN /\ wk' = [wk EXCEPT ![c].i = @ + 1]
                    /\ UNCHANGED hist
               ELSE /\ wk' = [wk EXCEPT ![c] = IdleWorker]
                    /\ hist' = Append(hist, Nil)
    /\ UNCHANGED current
    /\ ParFrame

\* atomic.StoreUint64(&s.current, uint64(idx)); return backend
CallReturn(c) ==
    /\ wk[c].pc = "store"
    /\ current' = wk[c].peer - 1
    /\ hist' = Append(hist, wk[c].peer)
    /\ wk' = [wk EXCEPT ![c] = IdleWorker]
    /\ ParFrame

NextPar ==
    \/ \E c \in Callers : CallBegin(c)
    \/ \E c \in Callers : CallScan(c)
    \/ \E c \in Callers : CallReturn(c)

SpecPar == InitPar /\ [][NextPar]_vars

\* ------------------------------------------------------ claims on SpecPar

\* the number of recorded calls that returned backend b
Returned(b) == Cardinality({k \in 1..Len(hist) : hist[k] = b})

\* C17: with all N backends alive and no liveness write, once N*m
\* GetNextPeer calls made by concurrent callers have all returned, each
\* backend has been returned exactly m times.
C17_EvenUnderOverlap ==
    (/\ AllAlive
     /\ \A c \in Callers : wk[c].pc = "idle"
     /\ Len(hist) % PoolSize = 0)
    => \A b \in 1..PoolSize : Returned(b) * PoolSize = Len(hist)

\* ---- the request handler of main, one step per access to shared memory

\* for attempts <= maxRetries: one attempt too many
AttemptsRemainLoose(attempts) == attempts <= maxRetries

\* for attempts < maxRetries, and the same test after a nil peer
AttemptsRemain(attempts) == attempts < maxRetries

At(w, pc, attempts, next, i, peer) ==
    [wk EXCEPT ![w] = [pc |-> pc, attempts |-> attempts, next |-> next,
                       i |-> i, peer |-> peer]]

\* history: the record r of the request of handler w
Rec(o, w, r) == IF w = o.who THEN [o EXCEPT !.req = r] ELSE o

\* history: a writer other than the checker wrote the flag of backend p
OtherWrite(o, p) == IF p = o.watch THEN [o EXCEPT !.pr.dirty = TRUE] ELSE o

\* history: true was written to the flag of backend p
TrueWritten(o, p) == [o EXCEPT !.req.stale = @ \ {p}]

\* the positions whose flag is false
DownIn(bs) == {p \in 1..Len(bs) : ~IsAlive(bs, p)}

\* history: a GetNextPeer call of handler w begins
CallBegun(o, w) ==
    IF o.track /\ w = o.who
    THEN [o EXCEPT !.call = [res |-> "none",
                             allDown |-> DownIn(backends) = 1..Len(backends),
                             seen |-> DownIn(backends)]]
    ELSE o

\* history: a liveness flag is written while the call is scanning, bs the
\* flags after the write
FlagWritten(o, bs) ==
    IF o.track /\ o.who # Nil /\ wk[o.who].pc = "scan"
    THEN [o EXCEPT !.call.allDown = @ \/ (DownIn(bs) = 1..Len(bs)),
                   !.call.seen = @ \cup DownIn(bs)]
    ELSE o

\* history: the call of handler w returns p; what was seen during a call
\* that returned nil is kept until the handler's next call
CallReturned(o, w, p) ==
    IF o.track /\ w = o.who
    THEN (IF p = Nil THEN [o EXCEPT !.call.res = "nil"]
          ELSE [o EXCEPT !.call = NoCall])
    ELSE o

\* history: the request of handler w is over
CallForgotten(o, w) == IF w = o.who THEN [o EXCEPT !.call = NoCall] ELSE o

\* http.Error(w, "Service Unavailable", 503); return
ServiceUnavailable(w) ==
    /\ wk' = At(w, "done", 0, 0, 0, Nil)
    /\ obs' = Rec(obs, w, [obs.req EXCEPT !.out = "503"])

\* peer == nil: pause and try again while attempts remain, else 503
NoPeer(w, attempts, r) ==
    IF AttemptsRemain(attempts)
    THEN /\ wk' = At(w, "loop", attempts, 0, 0, Nil)
         /\ obs' = CallReturned(
                      Rec(obs, w, [r EXCEPT !.nils = @ + 1, !.pauses = @ + 1,
                                            !.stale = {}]), w, Nil)
    ELSE /\ wk' = At(w, "done", 0, 0, 0, Nil)
         /\ obs' = CallReturned(
                      Rec(obs, w, [r EXCEPT !.nils = @ + 1, !.out = "503",
                                            !.stale = {}]), w, Nil)

\* the head of the loop: the test, attempts++, and GetNextPeer up to the
\* atomic increment of NextIndex; past the loop, the final 503
HandlerLoop(w) ==
    /\ lifecycle.pc # "new"
    /\ wk[w].pc \in {"idle", "loop"}
    /\ IF ~AttemptsRemain(wk[w].attempts)
       THEN /\ ServiceUnavailable(w)
            /\ UNCHANGED current
       ELSE LET a == wk[w].attempts + 1
                r == [obs.req EXCEPT !.sel = @ + 1]
            IN IF Len(backends) = 0
               THEN /\ NoPeer(w, a, r)
                    /\ UNCHANGED current
               ELSE /\ current' = AtomicAdd(current)
                    /\ wk' = At(w, "scan", a,
                                NextIndexOf(current', Len(backends)), 0, Nil)
                    /\ obs' = CallBegun(Rec(obs, w,
                          [r EXCEPT !.stale = {p \in 1..Len(backends) :
                                                  ~IsAlive(backends, p)}]), w)
    /\ UNCHANGED <<backends, hist, hc, lifecycle>>

\* a scan that gives up one backend short of the full round
ScanStepShort(w) ==
    /\ wk[w].pc = "scan"
    /\ LET n == Len(backends)
           idx == ScanIdx(wk[w].next, wk[w].i, n)
       IN IF IsAlive(backends, idx + 1)
          THEN /\ wk' = At(w, "store", wk[w].attempts, 0, 0, idx + 1)
               /\ obs' = CallReturned(
                     Rec(obs, w, [obs.req EXCEPT !.stale = @ \cap {idx + 1}]),
                     w, idx + 1)
          ELSE IF wk[w].i + 1 < n - 1
               THEN /\ wk' = At(w, "scan", wk[w].attempts, wk[w].next,
                                wk[w].i + 1, Nil)
                    /\ obs' = Rec(obs, w, [obs.req EXCEPT !.stale = @ \ {idx + 1}])
               ELSE NoPeer(w, wk[w].attempts, obs.req)
    /\ UNCHANGED <<backends, current, hist, hc, lifecycle>>

\* one iteration of GetNextPeer's scan: the read of backends[idx].IsAlive()
ScanStep(w) ==
    /\ wk[w].pc = "scan"
    /\ LET n == Len(backends)
           idx == ScanIdx(wk[w].next, wk[w].i, n)
       IN IF IsAlive(backends, idx + 1)
          THEN /\ wk' = At(w, "store", wk[w].attempts, 0, 0, idx + 1)
               /\ obs' = CallReturned(
                     Rec(obs, w, [obs.req EXCEPT !.stale = @ \cap {idx + 1}]),
                     w, idx + 1)
          ELSE IF wk[w].i + 1 < n
               THEN /\ wk' = At(w, "scan", wk[w].attempts, wk[w].next,
                                wk[w].i + 1, Nil)
                    /\ obs' = Rec(obs, w, [obs.req EXCEPT !.stale = @ \ {idx + 1}])
               ELSE NoPeer(w, wk[w].attempts, obs.req)
    /\ UNCHANGED <<backends, current, hist, hc, lifecycle>>

\* atomic.StoreUint64(&s.current, uint64(idx)); return backend
StoreStep(w) ==
    /\ wk[w].pc = "store"
    /\ current' = wk[w].peer - 1
    /\ wk' = At(w, "check", wk[w].attempts, 0, 0, wk[w].peer)
    /\ UNCHANGED <<backends, hist, hc, lifecycle, obs>>

\* a handler that sets the headers for the first candidate it gets, before
\* the liveness test, and leaves them alone on the later attempts
HandlerCheckFirstPeer(w) ==
    /\ wk[w].pc = "check"
    /\ obs' = Rec(obs, w,
          [obs.req EXCEPT !.by = "Nexus",
                          !.hdr = IF @ = Nil THEN backends[wk[w].peer].URL ELSE @,
                          !.skips = IF IsAlive(backends, wk[w].peer) THEN @ ELSE @ + 1,
                          !.stale = {}])
    /\ IF IsAlive(backends, wk[w].peer)
       THEN wk' = At(w, "forward", wk[w].attempts, 0, 0, wk[w].peer)
       ELSE wk' = At(w, "loop", wk[w].attempts, 0, 0, Nil)
    /\ UNCHANGED <<backends, current, hist, hc, lifecycle>>

\* a handler without the liveness test of the candidate
HandlerCheckNoTest(w) ==
    /\ wk[w].pc = "check"
    /\ wk' = At(w, "forward", wk[w].attempts, 0, 0, wk[w].peer)
    /\ obs' = Rec(obs, w, [obs.req EXCEPT !.by = "Nexus",
                                          !.hdr = backends[wk[w].peer].URL,
                                          !.stale = {}])
    /\ UNCHANGED <<backends, current, hist, hc, lifecycle>>

\* if !peer.IsAlive() { continue }; else X-Forwarded-By and X-Backend-Server
\* (peer.URL.String()) are set; peer.ReverseProxy.ServeHTTP is what comes next
HandlerCheck(w) ==
    /\ wk[w].pc = "check"
    /\ IF IsAlive(backends, wk[w].peer)
       THEN /\ wk' = At(w, "forward", wk[w].attempts, 0, 0, wk[w].peer)
            /\ obs' = Rec(obs, w, [obs.req EXCEPT !.by = "Nexus",
                                                  !.hdr = backends[wk[w].peer].URL,
                                                  !.stale = {}])
       ELSE /\ wk' = At(w, "loop", wk[w].attempts, 0, 0, Nil)
            /\ obs' = Rec(obs, w, [obs.req EXCEPT !.skips = @ + 1,
                                                  !.stale = {}])
    /\ UNCHANGED <<backends, current, hist, hc, lifecycle>>

\* what the base transport can answer
Results == {"ok", "5xx", "err"}

\* a RoundTrip that leaves the flag alone whatever the status
MarkOnStatusNever(bs, p, res) == bs

\* a RoundTrip that also sets the flag true for a response below 500
MarkOnStatusRevives(bs, p, res) ==
    IF res = "5xx" THEN SetAliveIn(bs, p, FALSE)
    ELSE IF res = "ok" THEN SetAliveIn(bs, p, TRUE) ELSE bs

\* RoundTrip's write for a response: SetAlive(false) when StatusCode >= 500
MarkOnStatus(bs, p, res) == IF res = "5xx" THEN SetAliveIn(bs, p, FALSE) ELSE bs

\* after peer.ReverseProxy.ServeHTTP(w, r) the handler returns, whatever the
\* round trip gave: a response is copied to the client; for an error the
\* ReverseProxy (NewBackend installs no ErrorHandler) answers 502
AfterServeHTTP(w, res, o) ==
    /\ wk' = At(w, "done", 0, 0, 0, Nil)
    /\ obs' = Rec(FlagWritten(o, backends'), w,
          [o.req EXCEPT
             !.fwd = Append(@, [peer |-> wk[w].peer, res |-> res,
                                flag |-> IF res = "ok" THEN "-"
                                         ELSE IF IsAlive(backends', wk[w].peer)
                                              THEN "up" ELSE "down"]),
             !.out = IF res = "err" THEN "502" ELSE "response"])

\* peer.ReverseProxy.ServeHTTP from its start, which touches shared memory
\* only at the end of passiveHealthCheckTransport.RoundTrip: the base round
\* trip and, for an error, the IsAlive test; for a response, the status test
\* and the return
Forward(w) ==
    /\ wk[w].pc = "forward"
    /\ \E res \in Results :
          LET p == wk[w].peer
          IN IF res = "err" /\ IsAlive(backends, p)
             THEN /\ wk' = At(w, "mark", wk[w].attempts, 0, 0, p)
                  /\ UNCHANGED <<backends, obs>>
             ELSE /\ backends' = MarkOnStatus(backends, p, res)
                  /\ AfterServeHTTP(w, res,
                        IF res = "5xx" THEN OtherWrite(obs, p) ELSE obs)
    /\ UNCHANGED <<current, hist, hc, lifecycle>>

\* a RoundTrip whose error path returns the error without the SetAlive
PassiveMarkForgets(w) ==
    /\ wk[w].pc = "mark"
    /\ UNCHANGED <<backends, current, hist, hc, lifecycle>>
    /\ AfterServeHTTP(w, "err", OtherWrite(obs, wk[w].peer))

\* RoundTrip, error path: t.backend.SetAlive(false); return nil, err
PassiveMark(w) ==
    /\ wk[w].pc = "mark"
    /\ backends' = SetAliveIn(backends, wk[w].peer, FALSE)
    /\ AfterServeHTTP(w, "err", OtherWrite(obs, wk[w].peer))
    /\ UNCHANGED <<current, hist, hc, lifecycle>>

\* the handler has returned; the goroutine serves its next request
Finish(w) ==
    /\ wk[w].pc = "done"
    /\ wk' = [wk EXCEPT ![w] = IdleWorker]
    /\ obs' = CallForgotten(Rec(obs, w, NoRequest), w)
    /\ UNCHANGED <<backends, current, hist, hc, lifecycle>>

\* ---- HealthChecker

\* the position after the backend at idx of the snapshot: the next backend,
\* or back to the select of the loop
AfterBackend(idx) ==
    IF idx + 1 <= Len(backends)
    THEN [pc |-> "probe", idx |-> idx + 1, alive |-> FALSE]
    ELSE [pc |-> "select", idx |-> 0, alive |-> FALSE]

\* Start: wg.Add(1) and the goroutine, which begins with checkHealth
Start ==
    /\ lifecycle.pc = "new"
    /\ lifecycle' = [lifecycle EXCEPT !.pc = "started", !.wg = @ + 1]
    /\ hc' = AfterBackend(0)
    /\ UNCHANGED <<backends, current, hist, wk, obs>>

\* a checker that logs whenever the probe succeeds
ProbeNoteOnUp(alive, wasAlive) == IF alive THEN "recovered" ELSE "none"

\* checkHealth: the log line, printed only if alive != wasAlive
ProbeNote(alive, wasAlive) ==
    IF alive # wasAlive
    THEN (IF alive THEN "recovered" ELSE "failed")
    ELSE "none"

\* history: the watched backend was probed
Probed(o, p, alive, wasAlive) ==
    IF p # o.watch THEN o
    ELSE [o EXCEPT !.pr = [res |-> IF alive THEN "up" ELSE "down",
                           was |-> wasAlive,
                           note |-> ProbeNote(alive, wasAlive),
                           pres |-> o.pr.res,
                           pnote |-> o.pr.note,
                           evDirty |-> o.pr.dirty,
                           dirty |-> FALSE]]

\* a checkHealth that writes the probe result whatever the flag reads
ProbeAlwaysWrites ==
    /\ hc.pc = "probe"
    /\ \E alive \in BOOLEAN :
          /\ hc' = [pc |-> "write", idx |-> hc.idx, alive |-> alive]
          /\ obs' = Probed(obs, hc.idx, alive, IsAlive(backends, hc.idx))
    /\ UNCHANGED <<backends, current, hist, wk, lifecycle>>

\* checkHealth, one backend: the probe, the read of the flag, the comparison
\* and the log line
Probe ==
    /\ hc.pc = "probe"
    /\ \E alive \in BOOLEAN :
          LET wasAlive == IsAlive(backends, hc.idx)
          IN /\ IF alive # wasAlive
                THEN hc' = [pc |-> "write", idx |-> hc.idx, alive |-> alive]
                ELSE hc' = AfterBackend(hc.idx)
             /\ obs' = Probed(obs, hc.idx, alive, wasAlive)
    /\ UNCHANGED <<backends, current, hist, wk, lifecycle>>

\* a checkHealth whose recovery branch logs but does not write
WriteLivenessDownOnly ==
    /\ hc.pc = "write"
    /\ backends' = IF hc.alive THEN backends
                   ELSE SetAliveIn(backends, hc.idx, FALSE)
    /\ hc' = AfterBackend(hc.idx)
    /\ UNCHANGED <<current, hist, wk, lifecycle, obs>>

\* checkHealth: backend.SetAlive(alive)
WriteLiveness ==
    /\ hc.pc = "write"
    /\ backends' = SetAliveIn(backends, hc.idx, hc.alive)
    /\ hc' = AfterBackend(hc.idx)
    /\ obs' = FlagWritten(IF hc.alive THEN TrueWritten(obs, hc.idx) ELSE obs,
                          backends')
    /\ UNCHANGED <<current, hist, wk, lifecycle>>

\* select, case <-ticker.C: another pass
SelectTick ==
    /\ hc.pc = "select"
    /\ hc' = AfterBackend(0)
    /\ UNCHANGED <<backends, current, hist, wk, lifecycle, obs>>

\* select, case <-h.stopChan: return, and the deferred wg.Done()
SelectStop ==
    /\ hc.pc = "select"
    /\ lifecycle.stopClosed
    /\ hc' = [pc |-> "exited", idx |-> 0, alive |-> FALSE]
    /\ lifecycle' = [lifecycle EXCEPT !.wg = @ - 1]
    /\ UNCHANGED <<backends, current, hist, wk, obs>>

\* Stop: close(h.stopChan)
StopClose ==
    /\ lifecycle.pc = "started"
    /\ lifecycle' = [lifecycle EXCEPT !.pc = "waiting", !.stopClosed = TRUE]
    /\ UNCHANGED <<backends, current, hist, wk, hc, obs>>

\* a Stop that does not wait for the goroutine
WaitDoneNoJoin(wg) == TRUE

\* h.wg.Wait() returns once the counter is zero
WaitDone(wg) == wg = 0

\* Stop: h.wg.Wait(), and Stop returns
StopWait ==
    /\ lifecycle.pc = "waiting"
    /\ WaitDone(lifecycle.wg)
    /\ lifecycle' = [lifecycle EXCEPT !.pc = "stopped"]
    /\ UNCHANGED <<backends, current, hist, wk, hc, obs>>

Next ==
    \/ \E w \in Workers : HandlerLoop(w)
    \/ \E w \in Workers : ScanStep(w)
    \/ \E w \in Workers : StoreStep(w)
    \/ \E w \in Workers : HandlerCheck(w)
    \/ \E w \in Workers : Forward(w)
    \/ \E w \in Workers : PassiveMark(w)
    \/ \E w \in Workers : Finish(w)
    \/ Start
    \/ Probe
    \/ WriteLiveness
    \/ SelectTick
    \/ SelectStop
    \/ StopClose
    \/ StopWait

Spec == Init /\ [][Next]_vars

\* the same process, with the probes of one backend recorded
InitHC ==
    /\ backends = MainPool
    /\ current = 0
    /\ hist = <<>>
    /\ wk = [w \in Workers |-> IdleWorker]
    /\ hc = NewHealthChecker
    /\ lifecycle = NewLifecycle
    /\ \E b \in 1..Len(MainPool) : obs = [InitObs EXCEPT !.watch = b]

SpecHC == InitHC /\ [][Next]_vars

\* the same process, with the instants of the GetNextPeer calls of the first
\* handler recorded
InitScan ==
    /\ backends = MainPool
    /\ current = 0
    /\ hist = <<>>
    /\ wk = [w \in Workers |-> IdleWorker]
    /\ hc = NewHealthChecker
    /\ lifecycle = NewLifecycle
    /\ obs = [InitObs EXCEPT !.who = 1, !.track = TRUE]

SpecScan == InitScan /\ [][Next]_vars

\* the scheduler runs every handler goroutine that can take a step, and a
\* round trip ends (with a response or with an error); new requests and timer
\* ticks need not come
HandlerRun(w) ==
    /\ wk[w].pc # "idle"
    /\ \/ HandlerLoop(w)
       \/ ScanStep(w)
       \/ StoreStep(w)
       \/ HandlerCheck(w)
       \/ Forward(w)
       \/ PassiveMark(w)

FairSpec == Spec /\ \A w \in Workers : WF_vars(HandlerRun(w))

\* the checker goroutine is scheduled, a probe ends within its timeout, and
\* the ticker of the loop fires every interval
CheckerRun == Probe \/ WriteLiveness \/ SelectTick

FairHC == Spec /\ WF_vars(CheckerRun)

\* the same, with main's Stop running on once it is called and the select
\* of the loop, which picks among its ready cases at random, taking the
\* stop case in the end if it is ready again and again
FairStop ==
    /\ Spec
    /\ WF_vars(CheckerRun)
    /\ SF_vars(SelectStop)
    /\ WF_vars(StopWait)

\* ---------------------------------------------------------- claims on Spec

\* the observed handler and the record of its request
Who == obs.who
Req == obs.req
Finished == wk[Who].pc = "done"
InFlight == wk[Who].pc \notin {"idle", "done"}
LastFwd == Req.fwd[Len(Req.fwd)]

\* C3: a request whose forward fails with a transport error while attempts
\* remain is not finished by that: the dispatcher selects again and forwards
\* to another backend (first forward fails, second succeeds: two forwards).
C3_RetryAfterTransportError ==
    (Finished /\ Len(Req.fwd) >= 1 /\ Req.fwd[1].res = "err"
        /\ Req.sel < maxRetries)
    => Len(Req.fwd) >= 2

\* C4: every finished request has one outcome, a backend's response or the
\* 503; a transport error reaches the client only as the 503 of an
\* exhausted attempt budget.
C4_ResponseOr503 ==
    Finished =>
        /\ Req.out \in {"response", "503"}
        /\ Req.out = "response" =>
               (Len(Req.fwd) >= 1 /\ LastFwd.res \in {"ok", "5xx"})
        /\ (Len(Req.fwd) >= 1 /\ LastFwd.res = "err") =>
               (Req.out = "503" /\ Req.sel = maxRetries)

\* C5: a request all of whose GetNextPeer calls return nil makes no forward
\* call, and it ends only after exactly maxRetries calls, with a pause
\* between consecutive calls, answering 503.
C5_AllDownGives503 ==
    (Req.sel >= 1 /\ Req.nils = Req.sel) =>
        /\ Req.fwd = <<>>
        /\ Req.pauses = (IF Finished THEN Req.sel - 1 ELSE Req.sel)
        /\ Finished => (Req.sel = maxRetries /\ Req.out = "503")

C5_Witness ==
    /\ Finished /\ Req.nils = maxRetries /\ Req.out = "503"
    /\ Req.pauses = maxRetries - 1
    /\ AllDown

\* C6: whatever the checker and the other handlers write in between, one
\* request makes at most maxRetries GetNextPeer calls and at most maxRetries
\* forward calls, every call counting as one attempt whether it returned
\* nil, a backend found dead afterwards or a backend forwarded to, and the
\* request ends with an outcome.
C6_BoundedAttempts ==
    /\ [](/\ Req.sel <= maxRetries
          /\ Len(Req.fwd) <= maxRetries
          /\ InFlight => wk[Who].attempts = Req.sel
          /\ Finished <=> Req.out # "none")
    /\ InFlight ~> Finished

\* a request that ends 503 after three selected-then-dead candidates
C6_Witness ==
    /\ Finished /\ Req.out = "503"
    /\ Req.sel = maxRetries /\ Req.nils = 0 /\ Req.fwd = <<>>

\* C7: when a round trip to b returns a transport error, b's flag is false;
\* a GetNextPeer call that begins while b's flag is false, so any call that
\* begins after that marking, does not return b unless true has been written
\* to b's flag in between.
C7_ErrMarkedNotSelected ==
    /\ \A k \in 1..Len(Req.fwd) : Req.fwd[k].res = "err" => Req.fwd[k].flag = "down"
    /\ wk[Who].pc \in {"store", "check"} => wk[Who].peer \notin Req.stale

\* a call that began while backends 1 and 2 were DOWN (2 not yet scanned)
\* and a call that returned backend 3 with backend 2 still DOWN
C7_Witness ==
    /\ wk[Who].pc = "check" /\ wk[Who].peer = 3 /\ wk[Who].attempts = 1
    /\ ~IsAlive(backends, 2) /\ IsAlive(backends, 1)
    /\ current = 2

\* C8: a round trip answered with a status >= 500 leaves the backend DOWN as
\* it returns, its response is what the client receives, and it is the last
\* forward call of the request, which is finished.
C8_5xxDeliveredNotRetried ==
    \A k \in 1..Len(Req.fwd) :
        Req.fwd[k].res = "5xx" =>
            /\ Req.fwd[k].flag = "down"
            /\ k = Len(Req.fwd)
            /\ Finished
            /\ Req.out = "response"

C8_Witness ==
    /\ Finished /\ Req.out = "response" /\ Req.sel = 1
    /\ Req.fwd = <<[peer |-> 2, res |-> "5xx", flag |-> "down"]>>
    /\ ~IsAlive(backends, 2)

\* C16: every response of a backend that reaches the client carries
\* X-Forwarded-By: Nexus and X-Backend-Server: the URL of the backend of the
\* request's forward call, the one that produced the response, however many
\* candidates were skipped or selections were empty before it.
C16_HeadersNameServingBackend ==
    (Len(Req.fwd) >= 1 /\ Req.out # "503") =>
        /\ Req.by = "Nexus"
        /\ Req.hdr = backends[LastFwd.peer].URL
        /\ Req.hdr = backendURLs[LastFwd.peer]

\* a response of backend 1, forwarded to on the third attempt after two
\* candidates were found DOWN after selection
C16_Witness ==
    /\ Finished /\ Req.out = "response" /\ Req.sel = maxRetries
    /\ Req.nils = 0 /\ Len(Req.fwd) = 1
    /\ LastFwd.peer = 1 /\ LastFwd.res = "ok" /\ Req.hdr = backendURLs[1]

\* a step that marks backend p DOWN: the checker's SetAlive(false), or a
\* round trip to p returning (SetAlive(false) for an error found with the
\* flag true and for a status >= 500, nothing for an error found with the
\* flag false)
DownMarking(p) ==
    \/ WriteLiveness /\ hc.idx = p /\ ~hc.alive
    \/ \E w \in Workers : wk[w].peer = p /\ PassiveMark(w)
    \/ \E w \in Workers : wk[w].peer = p /\ Forward(w) /\ wk'[w].pc = "done"

\* C18: a DOWN marking of a backend that is already DOWN, by SetAlive(false)
\* or by the passive path, is a step that can be taken and that leaves the
\* backend DOWN and every other flag, the backend sequence and the cursor
\* as they were.
C18_DownMarkingIdempotent ==
    [][\A p \in 1..Len(backends) :
          (~IsAlive(backends, p) /\ DownMarking(p)) =>
             /\ ~IsAlive(backends', p)
             /\ backends' = backends
             /\ current' = current]_vars

\* the round trip to backend 2 failed and found the flag true, the checker
\* cleared the flag meanwhile, and SetAlive(false) is what the handler does
\* next
C18_Witness ==
    /\ wk[Who].pc = "mark" /\ wk[Who].peer = 2
    /\ ~IsAlive(backends, 2)
    /\ ENABLED (DownMarking(2) /\ obs' # obs)

\* a GetNextPeer call of the request is in progress or has returned a
\* candidate not yet skipped
Selecting == wk[Who].pc \in {"scan", "store", "check", "forward", "mark"}

\* every GetNextPeer call of a request is one attempt of its budget, a
\* skipped candidate's too, and nothing is forwarded to a skipped candidate
\* by the attempt that skipped it
SkipsCount ==
    /\ Req.sel = Req.nils + Req.skips + Len(Req.fwd) + (IF Selecting THEN 1 ELSE 0)
    /\ InFlight => wk[Who].attempts = Req.sel
    /\ Req.sel <= maxRetries
    /\ Req.skips = maxRetries => (Req.fwd = <<>> /\ wk[Who].pc \in {"loop", "done"})

\* C19: the forward call to a selected candidate starts only if its flag is
\* true then, whenever since GetNextPeer returned it the flag was cleared;
\* a candidate found DOWN is skipped, the loop goes back to GetNextPeer, and
\* the skip has consumed one attempt.
C19_NoForwardAfterFlip ==
    /\ [][\A w \in Workers : Forward(w) => IsAlive(backends, wk[w].peer)]_vars
    /\ []SkipsCount

\* C19 as amended: a candidate whose flag reads false in the handler's one
\* test after GetNextPeer returned it is not forwarded to, the loop goes back
\* to GetNextPeer, and the skip has consumed one attempt; a candidate whose
\* flag reads true in that test is forwarded to, whatever is written to the
\* flag afterwards.
C19_SkipsCandidateFoundDown ==
    /\ [][\A w \in Workers :
            (wk[w].pc = "check" /\ wk'[w].pc # "check") =>
               IF IsAlive(backends, wk[w].peer)
               THEN wk'[w].pc = "forward" /\ wk'[w].peer = wk[w].peer
               ELSE /\ wk'[w].pc = "loop"
                    /\ wk'[w].attempts = wk[w].attempts
                    /\ w = Who => (Req.fwd' = Req.fwd /\ Req.skips' = Req.skips + 1)]_vars
    /\ [][\A w \in Workers :
            (wk[w].pc = "forward" /\ ~IsAlive(backends, wk[w].peer)) =>
               (wk'[w].pc # "loop" /\ ENABLED Forward(w))]_vars
    /\ []SkipsCount

\* after one skipped candidate, the candidate of the second attempt passed
\* the test and its flag was cleared before the forward call
C19_Witness ==
    /\ wk[Who].pc = "forward" /\ wk[Who].attempts = 2 /\ Req.skips = 1
    /\ ~IsAlive(backends, wk[Who].peer)

\* a step of a request handler: the dispatcher loop, GetNextPeer, the
\* forward and the passive marking
HandlerStep ==
    \E w \in Workers :
        \/ HandlerLoop(w) \/ ScanStep(w) \/ StoreStep(w) \/ HandlerCheck(w)
        \/ Forward(w) \/ PassiveMark(w) \/ Finish(w)

\* C21: no step of a handler leaves a flag true that was false, whatever the
\* round trip returned; in the running process every change of a flag from
\* false to true is the SetAlive(true) of the health checker's pass.
C21_OnlyCheckerRevives ==
    /\ [][HandlerStep =>
            \A b \in 1..Len(backends) :
                IsAlive(backends', b) => IsAlive(backends, b)]_vars
    /\ [][(\E b \in 1..Len(backends) : ~IsAlive(backends, b) /\ IsAlive(backends', b))
            => (hc.pc = "write" /\ hc.alive /\ hc' # hc /\ wk' = wk
                /\ backends' = SetAliveIn(backends, hc.idx, TRUE))]_vars

\* a backend whose flag the checker cleared after the handler's test answered
\* the request with a status below 500, and its flag is still false
C21_Witness ==
    /\ Finished /\ Len(Req.fwd) = 1 /\ LastFwd.res = "ok"
    /\ Req.out = "response"
    /\ ~IsAlive(backends, LastFwd.peer)

\* C10: after Stop has returned the goroutine has exited, and no step of the
\* checker (no probe, no liveness write, no new pass) is ever taken.
C10_NoProbeAfterStop ==
    [][lifecycle.pc = "stopped" =>
         (hc.pc = "exited" /\ ~Probe /\ ~WriteLiveness /\ ~SelectTick)]_vars

\* Stop has returned while a request is being forwarded
C10_Witness ==
    /\ lifecycle.pc = "stopped" /\ hc.pc = "exited" /\ lifecycle.wg = 0
    /\ \E w \in Workers : wk[w].pc = "forward"

\* -------------------------------------------------------- claims on SpecHC

\* a backend is created alive: before its first probe it counts as reachable
Before(res) == IF res = "none" THEN "up" ELSE res

\* the notifications follow the flips of the probe result
NotesFollowProbes(pr) ==
    /\ pr.note = "recovered" => (pr.res = "up" /\ Before(pr.pres) = "down")
    /\ pr.note = "failed" => (pr.res = "down" /\ Before(pr.pres) = "up")
    /\ pr.res = pr.pres => ~(pr.note # "none" /\ pr.pnote # "none")

\* C9: the checker logs 'recovered' only for a reachable probe that follows
\* an unreachable one, 'failed health check' only for the opposite flip, and
\* never for both of two consecutive probes with the same result, also when
\* the passive path writes the flag between the probes.
C9_NotesOnlyOnProbeFlip == NotesFollowProbes(obs.pr)

\* C9 as amended: the checker logs 'recovered' exactly for a reachable probe
\* that reads the flag false and 'failed health check' exactly for an
\* unreachable probe that reads the flag true; when nothing but the checker
\* wrote the flag since the backend's previous probe, that is a flip of the
\* probe result and two consecutive equal results do not both log.
C9_NotesOnFlagFlip ==
    LET pr == obs.pr
    IN /\ pr.note = "recovered" <=> (pr.res = "up" /\ ~pr.was)
       /\ pr.note = "failed" <=> (pr.res = "down" /\ pr.was)
       /\ ~pr.evDirty => NotesFollowProbes(pr)

\* a recovery logged after a logged failure, nothing else writing in between
C9_Witness ==
    /\ obs.pr.note = "recovered" /\ obs.pr.pres = "down"
    /\ obs.pr.pnote = "failed" /\ ~obs.pr.evDirty

\* C20: at every SetAlive of the checker the flag differs from the value
\* written, whatever was written to the flag between the checker's read and
\* its write.
C20_CheckerWriteChangesFlag ==
    [][WriteLiveness => IsAlive(backends, hc.idx) # hc.alive]_vars

\* C20 as amended: at every SetAlive of the checker the value written
\* differs from the value the checker read for that probe, and the flag
\* differs from the value written unless another writer wrote the flag
\* between that read and the write.
C20_CheckerWriteChangesUnlessRaced ==
    [][(WriteLiveness /\ hc.idx = obs.watch) =>
          /\ obs.pr.was # hc.alive
          /\ obs.pr.res = (IF hc.alive THEN "up" ELSE "down")
          /\ ~obs.pr.dirty => IsAlive(backends, hc.idx) # hc.alive
          /\ IsAlive(backends, hc.idx) = hc.alive => obs.pr.dirty]_vars

\* the checker read the flag true and probed the backend unreachable, a
\* passive marking cleared the flag, and the checker's write of false is next
C20_Witness ==
    /\ hc.pc = "write" /\ hc.idx = obs.watch /\ ~hc.alive
    /\ obs.pr.was /\ obs.pr.dirty
    /\ ~IsAlive(backends, hc.idx)

\* ------------------------------------------------------- claims on FairHC

\* a probe of backend b that finds it unreachable: the probe is followed by
\* a write exactly if the flag read true
DownProbe(b) ==
    Probe /\ hc.idx = b /\ ((hc'.pc = "write") <=> IsAlive(backends, b))

\* a step of a handler that clears the flag of backend b
HandlerDown(b) ==
    IsAlive(backends, b) /\ ~IsAlive(backends', b) /\ hc' = hc

\* C12: if from some point on the checker is running, every probe of
\* backend b finds it reachable and no handler clears b's flag, then from
\* some point on b's flag is true for good; a flag is only ever set true by
\* the checker's write, and a backend whose flag is true is returned by
\* GetNextPeer (for the cursor that points before it).
C12_ReachableBackendRecovers ==
    /\ \A b \in 1..Len(backendURLs) :
          (/\ <>[](lifecycle.pc = "started")
           /\ <>[][~DownProbe(b) /\ ~HandlerDown(b)]_vars)
          => <>[]IsAlive(backends, b)
    /\ [][\A b \in 1..Len(backendURLs) :
            (~IsAlive(backends, b) /\ IsAlive(backends', b)) =>
               (WriteLiveness /\ hc.idx = b /\ hc.alive)]_vars
    /\ [](\A b \in 1..Len(backends) :
            IsAlive(backends, b) =>
               \E cur \in 0..(CursorMod - 1) :
                  GetNextPeerResult(backends, cur).peer = b)

\* backend 2 answered a request with a status >= 500 and was marked DOWN by
\* that; the request is not yet finished with and the checker has marked the
\* backend UP again
C12_Witness ==
    /\ Finished /\ Len(Req.fwd) = 1
    /\ LastFwd.peer = 2 /\ LastFwd.res = "5xx" /\ LastFwd.flag = "down"
    /\ IsAlive(backends, 2)
    /\ lifecycle.pc = "started"

\* ------------------------------------------------------ claims on SpecScan

\* the observed handler's scan finds a flag true: GetNextPeer returns
PeerReturn == wk[Who].pc = "scan" /\ wk'[Who].pc = "store"

\* C25: a GetNextPeer call on the non-empty pool that returned nil had an
\* instant, between its beginning and its last read, at which every flag
\* was false; the flag of a backend it returns is true at the instant of
\* the call's read of it.
C25_NilOnlyIfAllDownAtOnce ==
    /\ [](obs.call.res = "nil" => obs.call.allDown)
    /\ [][PeerReturn => IsAlive(backends, wk'[Who].peer)]_vars

\* C25 as amended: for a GetNextPeer call on the non-empty pool that
\* returned nil, every backend's flag was false at some instant between the
\* call's beginning and its last read, not necessarily all at one instant;
\* the flag of a backend it returns is true at the instant of the call's
\* read of it.
C25_NilOnlyIfEachSeenDown ==
    /\ [](obs.call.res = "nil" => obs.call.seen = 1..Len(backends))
    /\ [][PeerReturn => IsAlive(backends, wk'[Who].peer)]_vars

\* a call returned nil although at every instant of it some flag was true
C25_Witness ==
    /\ obs.call.res = "nil" /\ ~obs.call.allDown
    /\ obs.call.seen = 1..Len(backends)
    /\ Req.nils >= 1

\* ----------------------------------------------------- claims on FairStop

\* C24: once stopChan is closed the checker starts no new pass (the tick
\* case of the select is not taken, pending tick or not), and Stop returns
\* in the end.
C24_NoNewPassAfterStopSignal ==
    /\ [][lifecycle.stopClosed => ~SelectTick]_vars
    /\ lifecycle.stopClosed ~> (lifecycle.pc = "stopped" /\ hc.pc = "exited")

====
